---- MODULE Spec2Model ----
(***************************************************************************)
(* Binary-alphabet Turing machines with N non-halting states: the growable *)
(* bit tape (tape.rs), the packed action encoding (transition.rs), the two *)
(* executors and the heuristic busy-beaver generator (turing_machine.rs).  *)
(***************************************************************************)
EXTENDS Integers, Sequences, FiniteSets, TLC

VARIABLES
    N,              \* const generic N of the machine under consideration
    max_steps,      \* the caller-supplied step budget
    m,              \* PartialTuringMachine.transitions ([PartialTransition; N])
    tm,             \* TuringMachine.transitions ([Transition; N]), <<>> before one exists
    pc,             \* control location of the scenario
    result,         \* outcome of the last PartialTuringMachine::run
    tm_result,      \* outcome of the last TuringMachine::run
    prev,           \* outcome of the PartialTuringMachine::run before the last add_transition
    action,         \* generate_busy_beaver's local `action` (last random draw)
    runs,           \* number of PartialTuringMachine::run calls made by the generator
    current_state,  \* TuringMachine::run's local current_state (stepwise run)
    tape,           \* TuringMachine::run's local tape (stepwise run)
    i               \* TuringMachine::run's local step counter (stepwise run)

vars == <<N, max_steps, m, tm, pc, result, tm_result, prev, action, runs,
          current_state, tape, i>>

----------------------------------------------------------------------------
(* Bounds of the model *)

\* largest step budget given to a run in the exhaustive executor scenarios
MaxSteps == 7
\* a budget long enough for the tape to grow on either side
LongSteps == 150
\* largest step budget in the scenario that extends a partial machine
MaxExtSteps == 6
\* largest step budget given to generate_busy_beaver
MaxGenSteps == 6
\* the generator's run counter saturates here
MaxRuns == 8
\* the head stays within this distance of the origin in the tape scenario
MaxPos == 66
\* the positions at which the tape scenario writes 1
MarkPositions == {-65, -64, -63, -1, 0, 1, 63, 64}
\* machine sizes of the scenario that extends a partial machine
ExtSizes == {2, 3}
\* machine sizes the generator is instantiated with
GenSizes == 2..7
\* sizes of the empty partial machines
EmptySizes == 2..7

----------------------------------------------------------------------------
(* transition.rs: State, Direction, Action *)

\* enum State, #[repr(u8)]: the discriminant of each variant (`s as u8`)
State_as_u8(s) ==
    CASE s = "Halt" -> 0 [] s = "A" -> 1 [] s = "B" -> 2 [] s = "C" -> 3
      [] s = "D" -> 4 [] s = "E" -> 5 [] s = "F" -> 6 [] s = "G" -> 7

\* impl From<u8> for State
State_from(state) ==
    CASE state = 0 -> "Halt" [] state = 1 -> "A" [] state = 2 -> "B"
      [] state = 3 -> "C" [] state = 4 -> "D" [] state = 5 -> "E"
      [] state = 6 -> "F" [] state = 7 -> "G"

\* State::start returning the second state
State_start_B == "B"

\* State::start
State_start == "A"

\* State::is_halting
is_halting(s) == s = "Halt"

\* enum Direction, #[repr(u8)]: `d as u8`
Direction_as_u8(d) == CASE d = "Left" -> 0 [] d = "Right" -> 1

\* impl From<u8> for Direction
Direction_from(direction) == CASE direction = 0 -> "Left" [] direction = 1 -> "Right"

\* Action::new shifting the state by one bit only: `(next_state as u8) << 1`
Action_new_shift1(symbol, direction, next_state) ==
    (State_as_u8(next_state) * 2 + Direction_as_u8(direction) * 2 + symbol) % 256

\* Action::new: the packed u8 representation
Action_new(symbol, direction, next_state) ==
    (State_as_u8(next_state) * 4 + Direction_as_u8(direction) * 2 + symbol) % 256

\* Action::get_direction
get_direction(a) == Direction_from((a \div 2) % 2)

\* Action::unpack
unpack(a) == <<a % 2, get_direction(a), State_from(a \div 4)>>

\* Option<Action>
None == <<>>
Some(a) == <<a>>
is_some(o) == o # None
is_none(o) == o = None
unwrap_or(o, d) == IF o = None THEN d ELSE o[1]

\* Transition::new
Transition_new(action_on_0, action_on_1) == <<action_on_0, action_on_1>>

\* Transition::get_action_of (a Transition is the pair of its two actions)
Transition_get_action_of(t, symbol) == unpack(t[symbol + 1])

\* PartialTransition::get_action_of
get_action_of(t, symbol) ==
    IF t[symbol + 1] = None THEN None ELSE Some(unpack(t[symbol + 1][1]))

\* a set_action_of that also clears the slot of the other symbol
set_action_of_clobber(t, symbol, a) ==
    [t EXCEPT ![symbol + 1] = a, ![2 - symbol] = None]

\* PartialTransition::set_action_of
set_action_of(t, symbol, a) == [t EXCEPT ![symbol + 1] = a]

\* PartialTransition::count_specified_actions
count_specified_actions(t) ==
    (IF is_some(t[1]) THEN 1 ELSE 0) + (IF is_some(t[2]) THEN 1 ELSE 0)

\* PartialTransition::default
PartialTransition_default == <<None, None>>

\* the conversion filling unset slots with actions that go to A, not Halt
Transition_from_default_to_A(t) ==
    << unwrap_or(t[1], Action_new(0, "Right", "A")),
       unwrap_or(t[2], Action_new(1, "Right", "A")) >>

\* the conversion with the same default action for both symbols
Transition_from_same_default(t) ==
    << unwrap_or(t[1], Action_new(1, "Right", "Halt")),
       unwrap_or(t[2], Action_new(1, "Right", "Halt")) >>

\* impl From<PartialTransition> for Transition
Transition_from(t) ==
    << unwrap_or(t[1], Action_new(0, "Right", "Halt")),
       unwrap_or(t[2], Action_new(1, "Right", "Halt")) >>

----------------------------------------------------------------------------
(* tape.rs: Tape.  A u64 chunk is the set of its bit offsets that hold 1. *)

\* Tape::new
Tape_new == [cells |-> <<{}, {}>>, head |-> 0, range |-> <<-64, 63>>]

\* Tape::get_cell_bit_index
get_cell_bit_index(t, position) ==
    LET positive_position == (-t.range[1]) + position
    IN  <<positive_position \div 64, positive_position % 64>>

\* Tape::read
read(t) ==
    LET cb == get_cell_bit_index(t, t.head)
    IN  IF cb[2] \in t.cells[cb[1] + 1] THEN 1 ELSE 0

\* Tape::write that only ever sets the bit
write_no_clear(t, symbol) ==
    LET cb == get_cell_bit_index(t, t.head)
    IN  IF symbol = 1
        THEN [t EXCEPT !.cells[cb[1] + 1] = @ \cup {cb[2]}]
        ELSE t

\* Tape::move_head with push_back where the lower boundary needs push_front
move_head_push_back(t, direction) ==
    LET t1 == IF t.head = t.range[1]
              THEN [t EXCEPT !.cells = Append(@, {}), !.range[1] = @ - 64]
              ELSE t
        t2 == IF t1.head = t1.range[2]
              THEN [t1 EXCEPT !.cells = Append(@, {}), !.range[2] = @ + 64]
              ELSE t1
    IN  [t2 EXCEPT !.head = @ + Direction_as_u8(direction) * 2 - 1]

\* Tape::write
write(t, symbol) ==
    LET cb == get_cell_bit_index(t, t.head)
    IN  IF symbol = 1
        THEN [t EXCEPT !.cells[cb[1] + 1] = @ \cup {cb[2]}]
        ELSE [t EXCEPT !.cells[cb[1] + 1] = @ \ {cb[2]}]

\* Tape::move_head with `direction as isize` for the step: Left does not move
move_head_right_only(t, direction) ==
    LET t1 == IF t.head = t.range[1]
              THEN [t EXCEPT !.cells = <<{}>> \o @, !.range[1] = @ - 64]
              ELSE t
        t2 == IF t1.head = t1.range[2]
              THEN [t1 EXCEPT !.cells = Append(@, {}), !.range[2] = @ + 64]
              ELSE t1
    IN  [t2 EXCEPT !.head = @ + Direction_as_u8(direction)]

\* Tape::move_head without the allocation at the lower boundary
move_head_no_left_growth(t, direction) ==
    LET t2 == IF t.head = t.range[2]
              THEN [t EXCEPT !.cells = Append(@, {}), !.range[2] = @ + 64]
              ELSE t
    IN  [t2 EXCEPT !.head = @ + Direction_as_u8(direction) * 2 - 1]

\* Tape::move_head
move_head(t, direction) ==
    LET t1 == IF t.head = t.range[1]
              THEN [t EXCEPT !.cells = <<{}>> \o @, !.range[1] = @ - 64]
              ELSE t
        t2 == IF t1.head = t1.range[2]
              THEN [t1 EXCEPT !.cells = Append(@, {}), !.range[2] = @ + 64]
              ELSE t1
    IN  [t2 EXCEPT !.head = @ + Direction_as_u8(direction) * 2 - 1]

\* Tape::count_ones: the number of set bits over all chunks
RECURSIVE SumOnes(_)
SumOnes(cells) ==
    IF cells = <<>> THEN 0 ELSE Cardinality(Head(cells)) + SumOnes(Tail(cells))

count_ones(t) == SumOnes(t.cells)

----------------------------------------------------------------------------
(* turing_machine.rs: the two executors *)

\* the locals of a run at loop entry: State::start(), Tape::new(), i = 0
RunStart == [current_state |-> State_start, tape |-> Tape_new, i |-> 0]

\* the loop condition with `i <= max_steps`
LoopCond_le(rs, max) == ~is_halting(rs.current_state) /\ rs.i <= max

\* the loop condition of both run functions
LoopCond(rs, max) == ~is_halting(rs.current_state) /\ rs.i < max

\* the effect of an unpacked action (symbol, direction, new_state) on the locals
Apply(rs, act) ==
    [current_state |-> act[3],
     tape |-> move_head(write(rs.tape, act[1]), act[2]),
     i |-> rs.i + 1]

\* TuringMachine::run, loop body
TM_body(transitions, rs) ==
    Apply(rs, Transition_get_action_of(
                  transitions[State_as_u8(rs.current_state) - 1 + 1],
                  read(rs.tape)))

\* TuringMachine::run, the loop
RECURSIVE TM_loop(_, _, _)
TM_loop(transitions, rs, max) ==
    IF LoopCond(rs, max)
    THEN TM_loop(transitions, TM_body(transitions, rs), max)
    ELSE rs

\* the value a run returns from its final locals: is_halting().then(|| count_ones())
Productivity(rs) ==
    IF is_halting(rs.current_state) THEN Some(count_ones(rs.tape)) ELSE None

\* TuringMachine::run; `steps` records the final value of the local i
TuringMachine_run(transitions, max) ==
    LET rs == TM_loop(transitions, RunStart, max)
    IN  [value |-> Productivity(rs), steps |-> rs.i]

\* Result<Option<usize>, (State, u8)>
Ok(o) == [tag |-> "Ok", value |-> o, at |-> <<>>]
Err(s, x) == [tag |-> "Err", value |-> None, at |-> <<s, x>>]

\* PartialTuringMachine::run, the lookup of the loop body
P_lookup(transitions, rs) ==
    get_action_of(transitions[State_as_u8(rs.current_state) - 1 + 1], read(rs.tape))

\* the error reporting symbol 0 whatever was read
P_err_symbol0(rs) == Err(rs.current_state, 0)

\* PartialTuringMachine::run, the error of `.ok_or((current_state, tape.read()))?`
P_err(rs) == Err(rs.current_state, read(rs.tape))

\* PartialTuringMachine::run, one pass through the loop from the locals rs
\* with `trace` the actions executed so far, and the passes after it
RECURSIVE P_loop(_, _, _, _)
P_pass(transitions, rs, trace, max) ==
    IF LoopCond(rs, max)
    THEN LET o == P_lookup(transitions, rs)
         IN  IF is_none(o)
             THEN [ret |-> P_err(rs), steps |-> rs.i, trace |-> trace]
             ELSE P_loop(transitions, Apply(rs, o[1]),
                         Append(trace, <<rs.current_state, read(rs.tape), o[1]>>), max)
    ELSE [ret |-> Ok(Productivity(rs)), steps |-> rs.i, trace |-> trace]

\* PartialTuringMachine::run, the loop (the locals are bound as values, so
\* that each pass is computed once)
P_loop(transitions, rs0, trace0, max) ==
    CHOOSE out \in {P_pass(transitions, rs, trace, max) :
                       rs \in {rs0}, trace \in {trace0}} : TRUE

\* PartialTuringMachine::run
PartialTuringMachine_run(transitions, max) == P_loop(transitions, RunStart, <<>>, max)

\* add_transition indexing the table with `state as usize`, without the - 1
add_transition_next_row(transitions, state, symbol, a) ==
    LET row == IF State_as_u8(state) + 1 > Len(transitions) THEN 1
               ELSE State_as_u8(state) + 1
    IN  [transitions EXCEPT ![row] = set_action_of(@, symbol, Some(a))]

\* PartialTuringMachine::add_transition
add_transition(transitions, state, symbol, a) ==
    [transitions EXCEPT ![State_as_u8(state) - 1 + 1] = set_action_of(@, symbol, Some(a))]

\* impl From<PartialTuringMachine<N>> for TuringMachine<N>
TuringMachine_from(transitions) ==
    [s \in 1..Len(transitions) |-> Transition_from(transitions[s])]

----------------------------------------------------------------------------
(* The machines given to the executors *)

\* the states a machine of size n may name: Halt and the first n ordinary states
StatesOf(n) == {State_from(k) : k \in 0..n}

\* every action of a machine of size n
ActionsOf(n) ==
    {Action_new(w, d, q) : w \in {0, 1}, d \in {"Left", "Right"}, q \in StatesOf(n)}

\* every complete table of size n
CompleteTables(n) == [1..n -> [1..2 -> ActionsOf(n)]]

\* every partial table of size n
PartialTables(n) == [1..n -> [1..2 -> {None} \cup {Some(a) : a \in ActionsOf(n)}]]

\* PartialTuringMachine::new([PartialTransition::default(); N])
EmptyTable(n) == [s \in 1..n |-> PartialTransition_default]

\* values of the variables a scenario does not use
NotRun == [ret |-> [tag |-> "NotRun", value |-> None, at |-> <<>>],
           steps |-> 0, trace |-> <<>>]
TMNotRun == [value |-> None, steps |-> 0]
NoAction == None

----------------------------------------------------------------------------
(* Scenario: a complete machine is built and run once *)

InitTM ==
    /\ N = 2
    /\ max_steps \in 0..MaxSteps \cup {LongSteps}
    /\ tm \in CompleteTables(N)
    /\ m = <<>>
    /\ pc = "ready"
    /\ result = NotRun
    /\ tm_result = TMNotRun
    /\ prev = NotRun
    /\ action = NoAction
    /\ runs = 0
    /\ current_state = State_start
    /\ tape = Tape_new
    /\ i = 0

\* tm.run(max_steps)
TMRun ==
    /\ pc = "ready"
    /\ tm_result' = TuringMachine_run(tm, max_steps)
    /\ pc' = "returned"
    /\ UNCHANGED <<N, max_steps, m, tm, result, prev, action, runs,
                   current_state, tape, i>>

NextTM == TMRun

SpecTM == InitTM /\ [][NextTM]_vars

----------------------------------------------------------------------------
(* A Turing machine on an unbounded tape, the tape being the set of the      *)
(* positions that hold 1: what the claims about the executors refer to. *)

RefStart == [q |-> "A", ones |-> {}, pos |-> 0, n |-> 0]

RefStep(table, c) ==
    LET x   == IF c.pos \in c.ones THEN 1 ELSE 0
        act == unpack(table[State_as_u8(c.q)][x + 1])
    IN  [q    |-> act[3],
         ones |-> IF act[1] = 1 THEN c.ones \cup {c.pos} ELSE c.ones \ {c.pos},
         pos  |-> IF act[2] = "Right" THEN c.pos + 1 ELSE c.pos - 1,
         n    |-> c.n + 1]

\* the configuration after k actions, or at Halt when that comes first
RECURSIVE RefRun(_, _, _)
RefRun(table, c, k) ==
    IF k = 0 \/ c.q = "Halt" THEN c ELSE RefRun(table, RefStep(table, c), k - 1)

\* C1: TuringMachine::run(max_steps) returns Some(p) exactly when the machine,
\* started in A on the blank tape, reaches Halt after at most max_steps
\* actions, p being the number of cells holding 1 then; otherwise it returns
\* None; and it executes at most max_steps actions.
C1_RunReturnsProductivityIffHalts ==
    pc = "returned" =>
        LET c == RefRun(tm, RefStart, max_steps)
        IN  /\ tm_result.steps <= max_steps
            /\ tm_result.steps = c.n
            /\ (c.q = "Halt") => tm_result.value = Some(Cardinality(c.ones))
            /\ (c.q # "Halt") => tm_result.value = None

\* a run that halts on its last allowed action with several 1s written
C1_Witness ==
    /\ pc = "returned"
    /\ max_steps >= 4
    /\ tm_result.steps = max_steps
    /\ tm_result.value # None
    /\ tm_result.value[1] >= 3

\* the 2-state machine of the scenario: A0 = 1RB, A1 = 1LB, B0 = 1LA, B1 = 1RH
BB2 ==
    << <<Action_new(1, "Right", "B"), Action_new(1, "Left", "B")>>,
       <<Action_new(1, "Left", "A"),  Action_new(1, "Right", "Halt")>> >>

\* C3: that machine halts after exactly 6 actions with 4 cells holding 1:
\* run returns Some(4) for every max_steps >= 6 and None for every smaller one.
C3_BB2HaltsAfter6With4 ==
    (pc = "returned" /\ tm = BB2) =>
        IF max_steps >= 6
        THEN tm_result.value = Some(4) /\ tm_result.steps = 6
        ELSE tm_result.value = None /\ tm_result.steps = max_steps

\* the machine ran with a budget above 6
C3_Witness ==
    pc = "returned" /\ tm = BB2 /\ max_steps > 6 /\ tm_result.value = Some(4)

----------------------------------------------------------------------------
(* Scenario: main's first machine, run one loop iteration at a time *)

\* the budget main gives to run
MainSteps == 1000

\* main's Transition for state A: A0 = 1LA, A1 = 0LA
MainA == <<Action_new(1, "Left", "A"), Action_new(0, "Left", "A")>>

InitMain ==
    /\ N = 2
    /\ max_steps = MainSteps
    /\ tm \in {t \in CompleteTables(N) : t[1] = MainA}
    /\ m = <<>>
    /\ pc = "running"
    /\ result = NotRun
    /\ tm_result = TMNotRun
    /\ prev = NotRun
    /\ action = NoAction
    /\ runs = 0
    /\ current_state = RunStart.current_state
    /\ tape = RunStart.tape
    /\ i = RunStart.i

\* the locals of the run in progress
Locals == [current_state |-> current_state, tape |-> tape, i |-> i]

\* one iteration of the loop of TuringMachine::run
TMStep ==
    /\ pc = "running"
    /\ LoopCond(Locals, max_steps)
    /\ LET rs == TM_body(tm, Locals)
       IN  /\ current_state' = rs.current_state
           /\ tape' = rs.tape
           /\ i' = rs.i
    /\ UNCHANGED <<N, max_steps, m, tm, pc, result, tm_result, prev, action, runs>>

\* the loop of TuringMachine::run exits and the function returns
TMReturn ==
    /\ pc = "running"
    /\ ~LoopCond(Locals, max_steps)
    /\ tm_result' = [value |-> Productivity(Locals), steps |-> i]
    /\ pc' = "returned"
    /\ UNCHANGED <<N, max_steps, m, tm, result, prev, action, runs,
                   current_state, tape, i>>

NextMain == TMStep \/ TMReturn

SpecMain == InitMain /\ [][NextMain]_vars

\* C4: a 2-state machine with A0 = 1LA and A1 = 0LA, whatever B's actions,
\* never reaches Halt, run(1000) returns None after 1000 actions, and the head
\* is inside the materialized range at every step.
C4_MainMachineNeverHalts ==
    /\ current_state # "Halt"
    /\ tape.range[1] <= tape.head /\ tape.head <= tape.range[2]
    /\ pc = "returned" => tm_result.value = None /\ tm_result.steps = MainSteps

\* the run returned after the tape grew to the left several times
C4_Witness ==
    /\ pc = "returned"
    /\ tm_result.steps = MainSteps
    /\ tape.head = -MainSteps
    /\ tape.range[1] < -MainSteps + 64

----------------------------------------------------------------------------
(* Scenario: a partial machine is built, run once, converted to a complete *)
(* machine, and that machine is run with the same budget                   *)

InitPartial ==
    /\ \/ N = 2 /\ m \in PartialTables(N)
       \/ N \in EmptySizes /\ m = EmptyTable(N)
    /\ max_steps \in 0..MaxSteps
    /\ tm = <<>>
    /\ pc = "ready"
    /\ result = NotRun
    /\ tm_result = TMNotRun
    /\ prev = NotRun
    /\ action = NoAction
    /\ runs = 0
    /\ current_state = State_start
    /\ tape = Tape_new
    /\ i = 0

\* m.run(max_steps)
PRun ==
    /\ pc = "ready"
    /\ result' = PartialTuringMachine_run(m, max_steps)
    /\ pc' = "ran"
    /\ UNCHANGED <<N, max_steps, m, tm, tm_result, prev, action, runs,
                   current_state, tape, i>>

\* TuringMachine::from(m); m is kept as the record of what was converted
Convert ==
    /\ pc = "ran"
    /\ tm' = TuringMachine_from(m)
    /\ pc' = "converted"
    /\ UNCHANGED <<N, max_steps, m, result, tm_result, prev, action, runs,
                   current_state, tape, i>>

\* TuringMachine::from(m).run(max_steps)
ConvertedRun ==
    /\ pc = "converted"
    /\ tm_result' = TuringMachine_run(tm, max_steps)
    /\ pc' = "returned"
    /\ UNCHANGED <<N, max_steps, m, tm, result, prev, action, runs,
                   current_state, tape, i>>

NextPartial == PRun \/ Convert \/ ConvertedRun

SpecPartial == InitPartial /\ [][NextPartial]_vars

(* The reference machine on a partial table: it is stuck when the slot of *)
(* its state and read symbol is unset.                                  *)

RefRead(c) == IF c.pos \in c.ones THEN 1 ELSE 0

RefUnset(table, c) == table[State_as_u8(c.q)][RefRead(c) + 1] = None

\* the table with every set slot unwrapped (unset slots are not looked up)
RefTable(table) ==
    [s \in DOMAIN table |->
        [x \in 1..2 |-> IF table[s][x] = None THEN 0 ELSE table[s][x][1]]]

\* the configuration after k actions, or at Halt or at an unset slot when
\* that comes first
RECURSIVE PRefRun(_, _, _)
PRefRun(table, c, k) ==
    IF k = 0 \/ c.q = "Halt" THEN [c |-> c, stuck |-> FALSE]
    ELSE IF RefUnset(table, c) THEN [c |-> c, stuck |-> TRUE]
    ELSE PRefRun(table, RefStep(RefTable(table), c), k - 1)

\* C2: PartialTuringMachine::run has three mutually exclusive outcomes:
\* Err((s, x)) exactly when, before Halt and before the budget is used up, the
\* machine is in state s reading x with slot (s, x) unset; Ok(Some(p)) exactly
\* when Halt is reached within the budget; Ok(None) exactly when the budget is
\* exhausted without Halt and without an unset slot.
C2_PartialRunThreeOutcomes ==
    pc = "ran" =>
        LET r == PRefRun(m, RefStart, max_steps)
            stuck  == r.stuck
            halted == ~r.stuck /\ r.c.q = "Halt"
            spent  == ~r.stuck /\ r.c.q # "Halt"
        IN  /\ (result.ret.tag = "Err") <=> stuck
            /\ stuck => result.ret = Err(r.c.q, RefRead(r.c)) /\ r.c.n < max_steps
            /\ (result.ret.tag = "Ok" /\ result.ret.value # None) <=> halted
            /\ halted => result.ret = Ok(Some(Cardinality(r.c.ones)))
            /\ (result.ret = Ok(None)) <=> spent
            /\ spent => r.c.n = max_steps
            /\ result.steps = r.c.n

\* a run stopped at an unset slot other than (A, 0) after several actions
C2_Witness ==
    /\ pc = "ran"
    /\ result.ret = Err("B", 1)
    /\ result.steps >= 3
    /\ result.steps < max_steps

\* C5 as stated: the empty partial machine of any size, run with any budget,
\* returns Err((A, 0)) without executing an action.
C5_EmptyAlwaysErr ==
    (pc = "ran" /\ m = EmptyTable(N)) =>
        result.ret = Err("A", 0) /\ result.steps = 0

\* C5 as amended: with a budget of at least one step the run of the empty
\* partial machine returns Err((A, 0)) without executing an action; with a
\* budget of zero it returns Ok(None).
C5_EmptyErrUnlessZeroBudget ==
    (pc = "ran" /\ m = EmptyTable(N)) =>
        /\ result.steps = 0
        /\ max_steps >= 1 => result.ret = Err("A", 0)
        /\ max_steps = 0 => result.ret = Ok(None)

\* the empty machine of the largest size stopped at (A, 0)
C5_Witness ==
    /\ pc = "ran"
    /\ N = 7
    /\ m = EmptyTable(N)
    /\ max_steps >= 1
    /\ result.ret = Err("A", 0)

----------------------------------------------------------------------------
(* Scenario: an empty partial machine is run, and each time the run stops  *)
(* at an unset slot that slot is given an action and the machine run again *)

InitExtend ==
    /\ N \in ExtSizes
    /\ m = EmptyTable(N)
    /\ max_steps \in 0..MaxExtSteps
    /\ tm = <<>>
    /\ pc = "ready"
    /\ result = NotRun
    /\ tm_result = TMNotRun
    /\ prev = NotRun
    /\ action = NoAction
    /\ runs = 0
    /\ current_state = State_start
    /\ tape = Tape_new
    /\ i = 0

\* m.add_transition(s, x, a) for the pair (s, x) the last run reported
AddAtErr ==
    /\ pc = "ran"
    /\ result.ret.tag = "Err"
    /\ \E a \in ActionsOf(N) :
          /\ m' = add_transition(m, result.ret.at[1], result.ret.at[2], a)
          /\ action' = Some(a)
    /\ prev' = result
    /\ pc' = "ready"
    /\ UNCHANGED <<N, max_steps, tm, result, tm_result, runs,
                   current_state, tape, i>>

NextExtend == PRun \/ AddAtErr

SpecExtend == InitExtend /\ [][NextExtend]_vars

\* C6: if run returned Err((s, x)) after k actions, then after
\* add_transition(s, x, a) a new run with the same budget repeats the same
\* first k actions and executes at least k + 1 actions: it does not stop
\* again at step k with (s, x).
C6_RunProceedsPastAddedSlot ==
    (pc = "ran" /\ prev.ret.tag = "Err") =>
        LET k == prev.steps
        IN  /\ result.steps >= k + 1
            /\ SubSeq(result.trace, 1, k) = prev.trace
            /\ result.trace[k + 1] =
                   <<prev.ret.at[1], prev.ret.at[2], unpack(action[1])>>
            /\ ~(result.ret = prev.ret /\ result.steps = k)

\* the second run got past an Err met after several actions, and met another
C6_Witness ==
    /\ pc = "ran"
    /\ prev.ret.tag = "Err"
    /\ prev.steps >= 2
    /\ result.ret.tag = "Err"
    /\ result.steps > prev.steps + 1

----------------------------------------------------------------------------
(* turing_machine.rs: the generator and the predicates it uses *)

\* PartialTuringMachine::is_n_state_full: `.map(..).count()` is the number of
\* elements the iterator yields, whatever the closure returns for each
is_n_state_full(transitions, n) ==
    LET mapped == [s \in 1..Len(transitions) |->
                      is_some(IF is_some(get_action_of(transitions[s], 0))
                              THEN get_action_of(transitions[s], 0)
                              ELSE get_action_of(transitions[s], 1))]
    IN  Len(mapped) = n

\* PartialTuringMachine::is_0_dextrous_with
is_0_dextrous_with(transitions, n, state, symbol, a) ==
    Cardinality({s \in 0..(Len(transitions) - 1) :
        IF s + 1 = State_as_u8(state) /\ symbol = 0
        THEN get_direction(a) = "Right"
        ELSE LET o == get_action_of(transitions[s + 1], 0)
             IN  IF is_none(o) THEN FALSE ELSE o[1][2] = "Right"}) = n

\* PartialTuringMachine::count_specified_transitions
RECURSIVE SumSpecified(_)
SumSpecified(ts) ==
    IF ts = <<>> THEN 0
    ELSE count_specified_actions(Head(ts)) + SumSpecified(Tail(ts))

count_specified_transitions(transitions) == SumSpecified(transitions)

\* PartialTuringMachine::state_choice_limit, the while loop from s
RECURSIVE scl_loop(_, _)
scl_loop(transitions, s) ==
    IF s > 0 /\ count_specified_actions(transitions[s - 1 + 1]) = 0
    THEN scl_loop(transitions, s - 1)
    ELSE s

\* PartialTuringMachine::state_choice_limit
state_choice_limit(transitions, n) == State_from(scl_loop(transitions, n))

\* a State::random whose range ends one state after hi
State_random_past_hi(lo, hi) ==
    {State_from(k) : k \in State_as_u8(lo)..(State_as_u8(hi) + 1)}

\* a State::random whose range starts at Halt instead of lo
State_random_from_halt(lo, hi) == {State_from(k) : k \in 0..State_as_u8(hi)}

\* the values State::random(lo..=hi) can return
State_random(lo, hi) == {State_from(k) : k \in State_as_u8(lo)..State_as_u8(hi)}

\* the values Direction::random() can return
Direction_random == {Direction_from(k) : k \in 0..1}

\* a halting_action whose next state is A instead of Halt
halting_action_to_A == Action_new(1, "Right", "A")

\* generate_busy_beaver: halting_action
halting_action == Action_new(1, "Right", "Halt")

\* generate_busy_beaver: the for loop run when 2N - 1 actions are specified
fill_single(transitions) ==
    [s \in 1..Len(transitions) |->
        IF count_specified_actions(transitions[s]) = 1
        THEN IF is_none(get_action_of(transitions[s], 0))
             THEN set_action_of(transitions[s], 0, Some(halting_action))
             ELSE set_action_of(transitions[s], 1, Some(halting_action))
        ELSE transitions[s]]

\* the state at the entry of generate_busy_beaver::<N>(max_steps), m being new
InitGen ==
    /\ N \in GenSizes
    /\ max_steps \in 0..MaxGenSteps
    /\ m = EmptyTable(N)
    /\ tm = <<>>
    /\ pc = "start"
    /\ result = NotRun
    /\ tm_result = TMNotRun
    /\ prev = NotRun
    /\ action = NoAction
    /\ runs = 0
    /\ current_state = State_start
    /\ tape = Tape_new
    /\ i = 0

\* generate_busy_beaver: the two initial add_transition calls
GenSetup ==
    /\ pc = "start"
    /\ \E w \in 0..1, d \in Direction_random :
          LET m1 == add_transition(m, "A", 0, Action_new(1, "Right", "B"))
          IN  IF N >= 3
              THEN m' = add_transition(m1, "B", 0, Action_new(w, d, "C"))
              ELSE \E q \in State_random("A", "B") :
                      m' = add_transition(m1, "B", 0, Action_new(w, d, q))
    /\ pc' = "loop"
    /\ UNCHANGED <<N, max_steps, tm, result, tm_result, prev, action, runs,
                   current_state, tape, i>>

\* generate_busy_beaver: one iteration of the search loop
GenLoop ==
    /\ pc = "loop"
    /\ \E r \in {PartialTuringMachine_run(m, max_steps)} :
          /\ result' = r
          /\ runs' = IF runs < MaxRuns THEN runs + 1 ELSE runs
          /\ IF r.ret.tag = "Ok"
             THEN /\ pc' = "break"
                  /\ UNCHANGED <<m, action>>
             ELSE \E state \in {r.ret.at[1]}, symbol \in {r.ret.at[2]} :
                    IF /\ is_n_state_full(m, N)
                       /\ ~is_0_dextrous_with(m, N, state, symbol, halting_action)
                    THEN /\ m' = add_transition(m, state, symbol, halting_action)
                         /\ pc' = "break"
                         /\ UNCHANGED action
                    ELSE \E w \in 0..1, d \in Direction_random,
                            q \in State_random("A", state_choice_limit(m, N)) :
                          \E a \in {Action_new(w, d, q)} :
                          \E m1 \in {IF ~is_0_dextrous_with(m, N, state, symbol, a)
                                     THEN add_transition(m, state, symbol, a)
                                     ELSE m} :
                             /\ action' = Some(a)
                             /\ IF count_specified_transitions(m1) = 2 * N - 1
                                THEN m' = fill_single(m1) /\ pc' = "break"
                                ELSE m' = m1 /\ pc' = "loop"
    /\ UNCHANGED <<N, max_steps, tm, tm_result, prev, current_state, tape, i>>

\* generate_busy_beaver: `m.into()` after the loop
GenReturn ==
    /\ pc = "break"
    /\ tm' = TuringMachine_from(m)
    /\ pc' = "done"
    /\ UNCHANGED <<N, max_steps, m, result, tm_result, prev, action, runs,
                   current_state, tape, i>>

NextGen == GenSetup \/ GenLoop \/ GenReturn

SpecGen == InitGen /\ [][NextGen]_vars

\* the generator keeps executing while it has not returned
SpecGenFair == SpecGen /\ WF_vars(NextGen)

\* C7: generate_busy_beaver::<N>(max_steps) always terminates, whatever the
\* random symbol, direction and state choices are: its search loop exits and
\* it returns a TuringMachine.
C7_GeneratorTerminates == <>(pc = "done")

\* C8: the number of PartialTuringMachine::run invocations of one
\* generate_busy_beaver::<N> execution is at most the table's capacity 2N.
C8_RunsBoundedByCapacity == runs <= 2 * N

\* the partial table halts within the budget when run from the blank tape
HaltsWithinBudget(transitions, max) ==
    LET r == PartialTuringMachine_run(transitions, max)
    IN  r.ret.tag = "Ok" /\ r.ret.value # None

\* C9 as stated: when the search loop is left, the partial table either halts
\* within max_steps from the blank tape or has all 2N actions specified.
C9_ExitHaltsOrFull ==
    pc = "break" =>
        \/ HaltsWithinBudget(m, max_steps)
        \/ count_specified_transitions(m) = 2 * N

\* C9 as amended: when the search loop is left, the run of the partial table
\* from the blank tape with max_steps meets no unset slot: it halts within
\* max_steps when the loop was left after Err, and it exhausts the budget
\* without halting when the loop was left after Ok.
C9_ExitRunsWithoutUnsetSlot ==
    pc = "break" =>
        LET r == PartialTuringMachine_run(m, max_steps)
        IN  /\ r.ret.tag = "Ok"
            /\ result.ret.tag = "Err" =>
                   r.ret.value # None /\ r.steps = result.steps + 1
            /\ result.ret.tag = "Ok" => r = result /\ r.ret.value = None

\* the loop was left with the halting action placed after a random extension
C9_Witness ==
    /\ pc = "break"
    /\ runs >= 2
    /\ result.ret.tag = "Err"
    /\ count_specified_transitions(m) = 4
    /\ HaltsWithinBudget(m, max_steps)

\* C10: the conversion keeps every set action and replaces every unset slot
\* by a halting action writing the slot's own symbol, so that every (state,
\* symbol) pair of the N states has a defined action.
C10_ConversionFillsWithHalting ==
    pc \in {"converted", "returned"} =>
        /\ Len(tm) = N
        /\ \A s \in 1..N : \A x \in 0..1 :
              /\ tm[s][x + 1] \in 0..255
              /\ m[s][x + 1] # None => tm[s][x + 1] = m[s][x + 1][1]
              /\ m[s][x + 1] = None =>
                    /\ unpack(tm[s][x + 1])[1] = x
                    /\ unpack(tm[s][x + 1])[3] = "Halt"

\* a converted table with an unset slot on each symbol and a set slot
C10_Witness ==
    /\ pc = "converted"
    /\ m[1][1] # None
    /\ m[1][2] = None
    /\ m[2][1] = None
    /\ m[2][2] # None

----------------------------------------------------------------------------
(* Scenario: a new Tape and any sequence of move_head and write calls.     *)
(* pc names the last call, action holds its argument and prev the tape as  *)
(* it was before the call.                                               *)

InitTape ==
    /\ N = 2
    /\ max_steps = 0
    /\ m = <<>>
    /\ tm = <<>>
    /\ pc = "new"
    /\ result = NotRun
    /\ tm_result = TMNotRun
    /\ prev = Tape_new
    /\ action = NoAction
    /\ runs = 0
    /\ current_state = State_start
    /\ tape = Tape_new
    /\ i = 0

\* tape.move_head(d)
TapeMove ==
    /\ \E d \in {"Left", "Right"} :
          /\ tape.head + Direction_as_u8(d) * 2 - 1 \in (-MaxPos)..MaxPos
          /\ tape' = move_head(tape, d)
          /\ action' = <<d>>
    /\ prev' = tape
    /\ pc' = "move_head"
    /\ UNCHANGED <<N, max_steps, m, tm, result, tm_result, runs, current_state, i>>

\* tape.write(s)
TapeWrite ==
    /\ \E s \in 0..1 :
          /\ s = 1 => tape.head \in MarkPositions
          /\ tape' = write(tape, s)
          /\ action' = <<s>>
    /\ prev' = tape
    /\ pc' = "write"
    /\ UNCHANGED <<N, max_steps, m, tm, result, tm_result, runs, current_state, i>>

NextTape == TapeMove \/ TapeWrite

SpecTape == InitTape /\ [][NextTape]_vars

\* the symbol the tape t stores for a materialized position
SymbolAt(t, position) ==
    LET cb == get_cell_bit_index(t, position)
    IN  IF cb[2] \in t.cells[cb[1] + 1] THEN 1 ELSE 0

\* C11: every move_head call changes the head by exactly +1 (Right) or -1
\* (Left), and after every call the head is within the inclusive
\* materialized range.
C11_MoveHeadStepsByOneInRange ==
    /\ tape.range[1] <= tape.head /\ tape.head <= tape.range[2]
    /\ pc = "move_head" =>
          tape.head - prev.head = (IF action[1] = "Right" THEN 1 ELSE -1)

\* the head moved left past the boundary of the new tape
C11_Witness ==
    pc = "move_head" /\ action[1] = "Left" /\ prev.head = -64 /\ tape.head = -65

\* C12: move_head(d) grows the materialized range if and only if the head
\* would step past the boundary on side d, then by exactly one 64-wide chunk
\* on side d only; otherwise the range and the number of chunks are unchanged.
C12_GrowthOnlyWhenSteppingPast ==
    pc = "move_head" =>
        LET d     == action[1]
            pastL == d = "Left" /\ prev.head = prev.range[1]
            pastR == d = "Right" /\ prev.head = prev.range[2]
        IN  /\ pastL => /\ tape.range = <<prev.range[1] - 64, prev.range[2]>>
                        /\ Len(tape.cells) = Len(prev.cells) + 1
            /\ pastR => /\ tape.range = <<prev.range[1], prev.range[2] + 64>>
                        /\ Len(tape.cells) = Len(prev.cells) + 1
            /\ ~(pastL \/ pastR) => /\ tape.range = prev.range
                                    /\ Len(tape.cells) = Len(prev.cells)

\* C13: read() right after write(s) returns s, whatever the cell held before,
\* and read() on a new tape returns 0.
C13_ReadAfterWrite ==
    /\ pc = "write" => read(tape) = action[1]
    /\ pc = "new" => read(tape) = 0

\* a 1 written before the tape grew to the left is overwritten by 0
C13_Witness ==
    /\ pc = "write"
    /\ action[1] = 0
    /\ read(prev) = 1
    /\ tape.range[1] < -64
    /\ tape.head = -1

\* C14: (chunk index, bit offset) = ((position - lower bound) >> 6,
\* (position - lower bound) & 63), and move_head, also when it allocates a
\* chunk, keeps the symbol of every position that was materialized and makes
\* every newly materialized position read 0.
C14_MappingConsistentAcrossGrowth ==
    /\ \A p \in {tape.range[1], tape.head, tape.range[2]} :
          /\ get_cell_bit_index(tape, p)[1] * 64 + get_cell_bit_index(tape, p)[2]
                = p - tape.range[1]
          /\ get_cell_bit_index(tape, p)[2] \in 0..63
          /\ get_cell_bit_index(tape, p)[1] \in 0..(Len(tape.cells) - 1)
    /\ pc = "move_head" =>
          \A p \in tape.range[1]..tape.range[2] :
              IF p \in prev.range[1]..prev.range[2]
              THEN SymbolAt(tape, p) = SymbolAt(prev, p)
              ELSE SymbolAt(tape, p) = 0

\* the tape grew to the left while holding 1s on both sides of the origin
C14_Witness ==
    /\ pc = "move_head"
    /\ tape.range[1] < prev.range[1]
    /\ SymbolAt(prev, -63) = 1
    /\ SymbolAt(prev, 1) = 1
    /\ SymbolAt(tape, 1) = 1

----------------------------------------------------------------------------
(* Scenario: a Transition is built from two actions made by Action::new and *)
(* one of them is read back.  prev holds the two (symbol, direction, state) *)
(* triples given to Action::new, tm the Transition, i the symbol looked up  *)
(* and result what get_action_of returned.                                  *)

\* every (symbol, direction, state) triple, the state being Halt or A..G
Triples ==
    {<<w, d, State_from(k)>> : w \in 0..1, d \in {"Left", "Right"}, k \in 0..7}

InitEncode ==
    /\ N = 2
    /\ max_steps = 0
    /\ m = <<>>
    /\ tm = <<>>
    /\ pc = "ready"
    /\ result = <<>>
    /\ tm_result = TMNotRun
    /\ prev \in Triples \X Triples
    /\ action = NoAction
    /\ runs = 0
    /\ current_state = State_start
    /\ tape = Tape_new
    /\ i \in 0..1

\* Transition::new(Action::new(..), Action::new(..))
EncodeNew ==
    /\ pc = "ready"
    /\ tm' = << Transition_new(Action_new(prev[1][1], prev[1][2], prev[1][3]),
                               Action_new(prev[2][1], prev[2][2], prev[2][3])) >>
    /\ pc' = "built"
    /\ UNCHANGED <<N, max_steps, m, result, tm_result, prev, action, runs,
                   current_state, tape, i>>

\* transition.get_action_of(i)
EncodeGet ==
    /\ pc = "built"
    /\ result' = Transition_get_action_of(tm[1], i)
    /\ pc' = "unpacked"
    /\ UNCHANGED <<N, max_steps, m, tm, tm_result, prev, action, runs,
                   current_state, tape, i>>

NextEncode == EncodeNew \/ EncodeGet

SpecEncode == InitEncode /\ [][NextEncode]_vars

\* C15: Action::new packs bit 0 = symbol, bit 1 = direction (0 = Left,
\* 1 = Right), remaining bits = state code (0 = Halt, at most 7), and
\* unpacking returns exactly the (symbol, direction, state) that was packed.
C15_PackUnpackRoundTrip ==
    /\ pc \in {"built", "unpacked"} =>
          \A x \in 0..1 :
              LET rep == tm[1][x + 1]
                  t   == prev[x + 1]
              IN  /\ rep \in 0..255
                  /\ rep % 2 = t[1]
                  /\ (rep \div 2) % 2 = (IF t[2] = "Right" THEN 1 ELSE 0)
                  /\ rep \div 4 = State_as_u8(t[3])
                  /\ rep \div 4 <= 7
                  /\ (rep \div 4 = 0) <=> (t[3] = "Halt")
    /\ pc = "unpacked" => result = prev[i + 1]

\* the action (1, Right, G) was packed for symbol 1 and read back
C15_Witness ==
    /\ pc = "unpacked"
    /\ i = 1
    /\ prev[1] = <<0, "Left", "Halt">>
    /\ result = <<1, "Right", "G">>

----------------------------------------------------------------------------
(* The generator's predicates and the way the search loop extends the table *)

\* the state of the table has at least one of its two actions specified
HasSomeAction(transitions, s) ==
    transitions[s][1] # None \/ transitions[s][2] # None

\* C16: is_n_state_full returns true if and only if every one of the N
\* states has at least one of its two actions specified (so the generator,
\* which tests it on every stuck slot, places the halting action and stops
\* only when no state is left without any action).
C16_NStateFullIffEveryStateHasAction ==
    pc = "loop" =>
        (is_n_state_full(m, N) <=> \A s \in 1..N : HasSomeAction(m, s))

\* C17: at no point of generate_busy_beaver is the table 0-dextrous: every
\* one of the N states having a specified action on symbol 0 that moves the
\* head Right.
C17_NeverZeroDextrous ==
    ~(\A s \in 1..N :
          /\ m[s][1] # None
          /\ unpack(m[s][1][1])[2] = "Right")

\* the first state (as a number) from s on that has an unspecified
\* transition, or the last state n when there is none
RECURSIVE FirstWithUnspecified(_, _, _)
FirstWithUnspecified(transitions, s, n) ==
    IF s >= n THEN n
    ELSE IF transitions[s][1] = None \/ transitions[s][2] = None THEN s
    ELSE FirstWithUnspecified(transitions, s + 1, n)

\* C18: state_choice_limit returns the first state that has unspecified
\* transitions, or the last state (the N-th) when there is none.
C18_ChoiceLimitIsFirstWithUnspecified ==
    pc = "loop" =>
        state_choice_limit(m, N) = State_from(FirstWithUnspecified(m, 1, N))

\* some action of the table has next state Halt
HasHaltingAction(transitions) ==
    \E s \in 1..Len(transitions) : \E x \in 1..2 :
        /\ transitions[s][x] # None
        /\ is_halting(unpack(transitions[s][x][1])[3])

\* C19: whenever the generator invokes PartialTuringMachine::run no action of
\* the table has next state Halt (a halting action is only added on leaving
\* the loop), so the run of the loop never returns Ok(Some(_)): its Ok
\* outcome is Ok(None) after exactly max_steps actions.
C19_NoHaltInsideLoop ==
    /\ pc \in {"start", "loop"} => ~HasHaltingAction(m)
    /\ result.ret.tag = "Ok" =>
          /\ result.ret.value = None
          /\ result.steps = max_steps

\* the loop was left on budget exhaustion, with a positive budget
C19_Witness ==
    /\ pc = "break"
    /\ result.ret.tag = "Ok"
    /\ max_steps >= 3
    /\ N = 2
    /\ count_specified_transitions(m) = 2

\* C20: every step of the generator leaves each action already in the table
\* as it is, so that the number of specified actions never decreases, and a
\* step of the search loop changes at most the one slot that the run
\* reported as unset.
C20_AddOnlyFillsUnsetSlots ==
    [][ /\ Len(m') = Len(m)
        /\ \A s \in 1..N : \A x \in 1..2 :
              m[s][x] # None => m'[s][x] = m[s][x]
        /\ count_specified_transitions(m') >= count_specified_transitions(m)
        /\ pc = "loop" =>
              \A s \in 1..N : \A x \in 1..2 :
                  m'[s][x] # m[s][x] =>
                      /\ result'.ret.tag = "Err"
                      /\ result'.ret.at = <<State_from(s), x - 1>>
      ]_vars

\* the halting action was added on symbol 1 of a state whose action on
\* symbol 0 was placed before and is still there
C20_Witness ==
    /\ pc = "break"
    /\ result.ret.tag = "Err"
    /\ result.ret.at[2] = 1
    /\ LET row == m[State_as_u8(result.ret.at[1])]
       IN  /\ row[2] = Some(halting_action)
           /\ row[1] # None
           /\ row[1] # Some(halting_action)

----------------------------------------------------------------------------
(* The run of a partial machine against the run of its conversion *)

\* C21: the converted machine agrees with the partial machine's run with the
\* same budget: if P.run is Ok(r) the converted run returns r, and if P.run
\* is Err((s, x)) after k actions the converted run halts after exactly k + 1
\* actions and returns Some.
C21_ConvertedRunAgrees ==
    pc = "returned" =>
        /\ result.ret.tag = "Ok" => tm_result.value = result.ret.value
        /\ result.ret.tag = "Err" =>
              /\ tm_result.value # None
              /\ tm_result.steps = result.steps + 1

\* the partial run stopped at an unset slot after several actions and the
\* converted run halted one action later with 1s on the tape
C21_Witness ==
    /\ pc = "returned"
    /\ result.ret.tag = "Err"
    /\ result.ret.at = <<"A", 1>>
    /\ result.steps >= 4
    /\ tm_result.steps = result.steps + 1
    /\ tm_result.value \notin {None, Some(0)}

----------------------------------------------------------------------------
(* The states named by the table the generator builds *)

\* the state is one of the first n ordinary states: a valid table index
IsIndex(q, n) == State_as_u8(q) \in 1..n

\* C22: every action the generator places has a next state that is Halt or
\* one of the first N states, the upper limit it passes to State::random is
\* at least A, and so the runs of the table (the partial table inside the
\* loop, the generated machine afterwards) index the transition table only
\* with one of the first N states, never with Halt or a state above N.
C22_NextStatesWithinTable ==
    /\ \A s \in 1..Len(m) : \A x \in 1..2 :
          m[s][x] # None => State_as_u8(unpack(m[s][x][1])[3]) \in 0..N
    /\ pc = "loop" => State_as_u8(state_choice_limit(m, N)) >= State_as_u8("A")
    /\ \A k \in 1..Len(result.trace) : IsIndex(result.trace[k][1], N)
    /\ result.ret.tag = "Err" => IsIndex(result.ret.at[1], N)
    /\ pc = "done" =>
          /\ \A s \in 1..Len(tm) : \A x \in 1..2 :
                State_as_u8(unpack(tm[s][x])[3]) \in 0..N
          /\ \A k \in 0..(max_steps - 1) :
                LET c == RefRun(tm, RefStart, k)
                IN  c.q = "Halt" \/ IsIndex(c.q, N)

\* a 3-state machine was returned after a random action and the halting
\* action were placed in the loop, its run visiting all three states
C22_Witness ==
    /\ pc = "done"
    /\ N = 3
    /\ action # NoAction
    /\ HasHaltingAction(m)
    /\ \E k \in 1..Len(result.trace) : result.trace[k][1] = "C"

====
